---------------------------- MODULE Spec2Model ----------------------------
(***************************************************************************)
(* A model of the password generator: the local client                     *)
(* (src/unnamed/part_000), which generates, scores and records passwords   *)
(* in the browser, and the API-backed client (src/src/App.tsx), which asks *)
(* a backend to do so and mirrors its history and statistics.              *)
(***************************************************************************)
EXTENDS Integers, Naturals, Sequences, FiniteSets, Bags, TLC

VARIABLES
    pcall,        \* pure calls: the arguments of the call under test
    pret,         \* pure calls: <<>> before the call, <<return value>> after
    \* ---- React state of App, in both clients
    mounted,      \* the mount effect has run
    length,       \* useState length
    options,      \* useState options
    password,     \* useState password
    strength,     \* useState strength
    history,      \* useState history
    showHistory,  \* useState showHistory
    \* ---- the local client (part_000) only
    clock,        \* the last reading of Date.now(), in milliseconds
    nSucceeded,   \* (history of the run) generations that had a non-empty pool
    nAppended,    \* (history of the run) items added by addToHistory
    lastItem,     \* (history of the run) <<the item addToHistory built last>>
    \* ---- the API-backed client (App.tsx) only
    stats,        \* useState stats: <<>> for null, else <<Stats>>
    loading,      \* useState loading
    error,        \* useState error
    genWait,      \* promises of generatePassword's Promise.all still pending
    net,          \* the bag of fetches in flight: requests and responses
    lastFailure,  \* (history of the run) the failure the client saw last, "" if none
    \* ---- the backend behind API_URL
    store,        \* the History Store, newest first
    nextId        \* the id the next HistoryItem gets

pureVars == <<pcall, pret>>
appVars == <<mounted, length, options, password, strength, history, showHistory>>
localVars == <<clock, nSucceeded, nAppended, lastItem>>
apiVars == <<stats, loading, error, genWait, net, lastFailure, store, nextId>>
vars == <<pureVars, appVars, localVars, apiVars>>

---------------------------------------------------------------------------
(* Bounds of the model.                                                    *)

\* Math.random() is modelled as k / RandDen for k in 0 .. RandDen-1.
RandDen == 4
\* Lengths 0 .. MaxLen are passed to generatePasswordFromOptions directly.
MaxLen == 13
\* evaluateStrength is applied to passwords of 0 .. MaxEvalLen characters ...
MaxEvalLen == 41
\* ... and to pool sizes 1 .. MaxEvalPool.
MaxEvalPool == 84
\* The local client records at most MaxLocalGens generations ...
MaxLocalGens == 4
\* ... or, when it only regenerates and clears, at most MaxCapGens.
MaxCapGens == 22
\* The backend records at most MaxApiGens generations.
MaxApiGens == 1
\* At most MaxInFlight fetches are in flight at once.
MaxInFlight == 2

---------------------------------------------------------------------------
(* Character sets (part_000 lines 18-23); a string is the sequence of its  *)
(* characters.                                                             *)

CHARSETS ==
    [upper   |-> <<"A","B","C","D","E","F","G","H","I","J","K","L","M",
                   "N","O","P","Q","R","S","T","U","V","W","X","Y","Z">>,
     lower   |-> <<"a","b","c","d","e","f","g","h","i","j","k","l","m",
                   "n","o","p","q","r","s","t","u","v","w","x","y","z">>,
     numbers |-> <<"0","1","2","3","4","5","6","7","8","9">>,
     symbols |-> <<"!","@","#","$","%","^","&","*","(",")","_","+","-",
                   "=","[","]","{","}","<",">","?">>]

OptionKeys == {"upper", "lower", "numbers", "symbols"}
Options == [OptionKeys -> BOOLEAN]

---------------------------------------------------------------------------
(* evaluateStrength (part_000 lines 25-31).                                *)
(*                                                                         *)
(* entropy = pw.length * Math.log2(poolSize) is compared with 40 and 60.   *)
(* For poolSize >= 1 the comparison entropy < t, t an integer, is          *)
(* floor(entropy) < t, and floor(length * log2(poolSize)) is the position  *)
(* of the top bit of poolSize^length.  The power is computed exactly on    *)
(* three 20-bit limbs and saturates at 2^60, the larger threshold; the     *)
(* double computation of the source decides the same band for every        *)
(* poolSize <= 128 and length <= 64.                                       *)

Limb == 2^20

\* <<l0, l1, l2, over>> is the number l0 + l1*Limb + l2*Limb^2, or, when
\* over is TRUE, some number >= Limb^3.  PowAcc multiplies it by p, k times.
RECURSIVE PowAcc(_, _, _, _, _, _)
PowAcc(l0, l1, l2, over, p, k) ==
    IF k = 0 THEN <<l0, l1, l2, over>>
    ELSE LET a0 == l0 * p
             a1 == l1 * p + (a0 \div Limb)
             a2 == l2 * p + (a1 \div Limb)
         IN  PowAcc(a0 % Limb, a1 % Limb, a2 % Limb,
                    over \/ (a2 \div Limb) > 0, p, k - 1)

Pow(p, len) == PowAcc(1, 0, 0, FALSE, p, len)

RECURSIVE FloorLog2(_)
FloorLog2(x) == IF x <= 1 THEN 0 ELSE 1 + FloorLog2(x \div 2)

\* floor(len * log2(poolSize)), capped at 60.
EntropyFloor(len, poolSize) ==
    LET n == Pow(poolSize, len)
    IN  IF n[4] THEN 60
        ELSE IF n[3] > 0 THEN 40 + FloorLog2(n[3])
        ELSE IF n[2] > 0 THEN 20 + FloorLog2(n[2])
        ELSE FloorLog2(n[1])

evaluateStrength_StrictBands(pw, poolSize) ==
    LET entropy == EntropyFloor(Len(pw), poolSize)
        exact40 == Pow(poolSize, Len(pw)) = <<0, 0, 1, FALSE>>
    IN  IF entropy < 40 \/ exact40 THEN "Weak"
        ELSE IF entropy < 60 THEN "Medium"
        ELSE "Strong"

evaluateStrength(pw, poolSize) ==
    LET entropy == EntropyFloor(Len(pw), poolSize)
    IN  IF entropy < 40 THEN "Weak"
        ELSE IF entropy < 60 THEN "Medium"
        ELSE "Strong"

---------------------------------------------------------------------------
(* generatePasswordFromOptions (part_000 lines 33-60).                     *)
(*                                                                         *)
(* rand is the sequence of values Math.random() returns, as numerators     *)
(* over RandDen; elapsed is endTime - startTime in microseconds.           *)

BuildPool_SymbolsAlways(opts) ==
    (IF opts.upper THEN CHARSETS.upper ELSE <<>>)
    \o (IF opts.lower THEN CHARSETS.lower ELSE <<>>)
    \o (IF opts.numbers THEN CHARSETS.numbers ELSE <<>>)
    \o (IF opts.symbols \/ opts.numbers THEN CHARSETS.symbols ELSE <<>>)

BuildPool(opts) ==
    (IF opts.upper THEN CHARSETS.upper ELSE <<>>)
    \o (IF opts.lower THEN CHARSETS.lower ELSE <<>>)
    \o (IF opts.numbers THEN CHARSETS.numbers ELSE <<>>)
    \o (IF opts.symbols THEN CHARSETS.symbols ELSE <<>>)

generatePasswordFromOptions(len, opts, rand, elapsed) ==
    LET pool == BuildPool(opts)
    IN  IF pool = <<>>
        THEN [password |-> <<>>, strength |-> "", responseTime |-> 0]
        ELSE LET result ==
                   [i \in 1..len |->
                       pool[((rand[i] * Len(pool)) \div RandDen) + 1]]
             IN  [password     |-> result,
                  strength     |-> evaluateStrength(result, Len(pool)),
                  responseTime |-> elapsed]

\* The draws of one call: seed, seed + step, seed + 2*step, ... modulo RandDen.
RandomStream(seed, step, n) == [i \in 1..n |-> (seed + (i - 1) * step) % RandDen]

NoOptions == [k \in OptionKeys |-> FALSE]

GenerateCalls ==
    [fn : {"generate"}, length : 0..MaxLen, options : Options,
     seed : 0..(RandDen - 1), step : 0..(RandDen - 1),
     pw : {<<>>}, poolSize : {0}]

EvaluateCalls ==
    [fn : {"evaluate"}, length : {0}, options : {NoOptions},
     seed : {0}, step : {0},
     pw : {[i \in 1..n |-> c] : n \in 0..MaxEvalLen, c \in {"a", "?"}},
     poolSize : 1..MaxEvalPool]

\* No pure call is under test.
PureIdle ==
    /\ pcall = [fn |-> "none", length |-> 0, options |-> NoOptions,
                seed |-> 0, step |-> 0, pw |-> <<>>, poolSize |-> 0]
    /\ pret = <<>>

---------------------------------------------------------------------------
(* The local client: App of part_000 (lines 62-135).                       *)
(*                                                                         *)
(* Each handler runs to completion; its inputs are the draws of the random *)
(* source (seed, step), the elapsed time performance.now() measures, tick, *)
(* the milliseconds the clock has advanced since its last reading, and     *)
(* tock, the milliseconds between the two readings addToHistory takes      *)
(* (0: the same millisecond).  The copied flag and the clipboard are left  *)
(* out: no handler modelled here reads them.                               *)

HistoryCap == 20

InitialLength == 12
InitialOptions ==
    [upper |-> TRUE, lower |-> TRUE, numbers |-> TRUE, symbols |-> FALSE]

\* The values the length input hands to handleLengthChange.
LengthInputs == {4, 8}
\* Milliseconds the clock advances between two handlers (Ticks) and between
\* the two readings addToHistory takes (Tocks); 0 is the same millisecond.
Ticks == {0, 1}
Tocks == {0, 1}
LocalSeeds == {1}
\* Elapsed times generatePasswordFromOptions measures, in microseconds.
Elapsed == {12}
\* With a measurement half-way between two hundredths of a millisecond.
HalfwayElapsed == {12, 15}

\* The reading of Date.now() when the page loads, two milliseconds before
\* the clock's second changes.
StartClock == 998

\* Math.round(responseTime * 100) / 100, in hundredths of a millisecond:
\* the values the expression can produce for a measurement of elapsed
\* microseconds.  responseTime is a double and so is responseTime * 100:
\* off the half-way point the product rounds to the nearest hundredth; at
\* the half-way point (0.015 * 100 = 1.4999999999999998, 1.005 * 100 =
\* 100.49999999999999, but 0.025 * 100 = 2.5) the product falls on either
\* side and Math.round returns the hundredth below or the one above.
RoundResponseTime(elapsed) ==
    IF elapsed % 10 = 5
    THEN {elapsed \div 10, elapsed \div 10 + 1}
    ELSE {(elapsed + 5) \div 10}

\* new Date().toLocaleTimeString(): the time of day to the second.
TimeString(t) == (t \div 1000) % 86400

\* The object literal of addToHistory.  Its fields read the clock twice:
\* Date.now() for the id (reading t) and new Date() for the timestamp
\* (reading t2, not before t); rounded is the value Math.round produced.
NewItem(pwd, str, rounded, t, t2) ==
    [id           |-> t,
     password     |-> pwd,
     strength     |-> str,
     timestamp    |-> TimeString(t2),
     responseTime |-> rounded]

Slice(s, n) == SubSeq(s, 1, IF Len(s) < n THEN Len(s) ELSE n)

setHistory_OffByOne(prev, newItem) == Slice(<<newItem>> \o prev, HistoryCap + 1)

\* setHistory(prev => [newItem, ...prev].slice(0, 20))
setHistory(prev, newItem) == Slice(<<newItem>> \o prev, HistoryCap)

\* addToHistory(pwd, str, responseTime) with the clock reading t at line 89
\* and t2 at line 92.
addToHistory(pwd, str, responseTime, t, t2) ==
    \E rounded \in RoundResponseTime(responseTime) :
        LET newItem == NewItem(pwd, str, rounded, t, t2)
        IN  /\ history' = setHistory(history, newItem)
            /\ lastItem' = <<newItem>>
            /\ nAppended' = nAppended + 1
            /\ clock' = t2

\* The body the mount effect and the three generating handlers share:
\* generate with (len, opts), display the result, add it to the history.
GenerateAndRecord(len, opts, seed, elapsed, tick, tock) ==
    LET r == generatePasswordFromOptions(len, opts,
                                         RandomStream(seed, 1, len), elapsed)
    IN  /\ password' = r.password
        /\ strength' = r.strength
        /\ addToHistory(r.password, r.strength, r.responseTime,
                        clock + tick, clock + tick + tock)
        /\ nSucceeded' = nSucceeded + (IF BuildPool(opts) # <<>> THEN 1 ELSE 0)

\* The useState initial values both clients share (part_000 lines 63-74,
\* App.tsx lines 32-43).
AppInit ==
    /\ mounted = FALSE
    /\ length = InitialLength
    /\ options = InitialOptions
    /\ password = <<>>
    /\ strength = ""
    /\ history = <<>>
    /\ showHistory = FALSE

LocalIdle ==
    /\ clock = StartClock
    /\ nSucceeded = 0
    /\ nAppended = 0
    /\ lastItem = <<>>

\* App.tsx lines 44-46, nothing in flight, an empty store.
ApiIdle ==
    /\ stats = <<>>
    /\ loading = FALSE
    /\ error = ""
    /\ genWait = 0
    /\ net = EmptyBag
    /\ lastFailure = ""
    /\ store = <<>>
    /\ nextId = 1

\* useEffect(..., []) (lines 76-85).
Mount(seed, elapsed, tick, tock) ==
    /\ ~mounted
    /\ mounted' = TRUE
    /\ GenerateAndRecord(length, options, seed, elapsed, tick, tock)
    /\ UNCHANGED <<length, options, showHistory, pureVars, apiVars>>

\* generatePassword (lines 99-104).
generatePassword(seed, elapsed, tick, tock) ==
    /\ mounted
    /\ GenerateAndRecord(length, options, seed, elapsed, tick, tock)
    /\ UNCHANGED <<mounted, length, options, showHistory, pureVars, apiVars>>

\* toggleOption (lines 106-115).
toggleOption(key, seed, elapsed, tick, tock) ==
    LET newOptions == [options EXCEPT ![key] = ~options[key]]
    IN  /\ mounted
        /\ options' = newOptions
        /\ GenerateAndRecord(length, newOptions, seed, elapsed, tick, tock)
        /\ UNCHANGED <<mounted, length, showHistory, pureVars, apiVars>>

\* handleLengthChange (lines 117-125).
handleLengthChange(newLength, seed, elapsed, tick, tock) ==
    /\ mounted
    /\ length' = newLength
    /\ GenerateAndRecord(newLength, options, seed, elapsed, tick, tock)
    /\ UNCHANGED <<mounted, options, showHistory, pureVars, apiVars>>

\* clearHistory (lines 133-135); the button is rendered with the panel.
clearHistory ==
    /\ mounted
    /\ showHistory
    /\ history' = <<>>
    /\ UNCHANGED <<mounted, length, options, password, strength, showHistory,
                   clock, nSucceeded, nAppended, lastItem, pureVars, apiVars>>

\* onClick={() => setShowHistory(!showHistory)} (line 181).
toggleShowHistory ==
    /\ mounted
    /\ showHistory' = ~showHistory
    /\ UNCHANGED <<mounted, length, options, password, strength, history,
                   clock, nSucceeded, nAppended, lastItem, pureVars, apiVars>>

InitLocal == PureIdle /\ AppInit /\ LocalIdle /\ ApiIdle

NextLocal ==
    \/ \E seed \in LocalSeeds, elapsed \in Elapsed,
          tick \in Ticks, tock \in Tocks :
          /\ nAppended < MaxLocalGens
          /\ Mount(seed, elapsed, tick, tock)
    \/ \E seed \in LocalSeeds, elapsed \in Elapsed,
          tick \in Ticks, tock \in Tocks :
          /\ nAppended < MaxLocalGens
          /\ generatePassword(seed, elapsed, tick, tock)
    \/ \E key \in OptionKeys :
       \E seed \in LocalSeeds, elapsed \in Elapsed,
          tick \in Ticks, tock \in Tocks :
          /\ nAppended < MaxLocalGens
          /\ toggleOption(key, seed, elapsed, tick, tock)
    \/ \E n \in LengthInputs :
       \E seed \in LocalSeeds, elapsed \in Elapsed,
          tick \in Ticks, tock \in Tocks :
          /\ nAppended < MaxLocalGens
          /\ handleLengthChange(n, seed, elapsed, tick, tock)
    \/ clearHistory
    \/ toggleShowHistory

SpecLocal == InitLocal /\ [][NextLocal]_vars

\* The local client when the user only regenerates and clears, each click in
\* a later millisecond than the one before: long enough to fill the history.
NextCap ==
    \/ \E elapsed \in HalfwayElapsed, tock \in Tocks :
          nAppended < MaxCapGens /\ Mount(0, elapsed, 1, tock)
    \/ \E elapsed \in Elapsed :
          nAppended < MaxCapGens /\ generatePassword(0, elapsed, 1, 0)
    \/ clearHistory
    \/ toggleShowHistory

SpecCap == InitLocal /\ [][NextCap]_vars

---------------------------------------------------------------------------
(* The backend behind API_URL.  Its code is not among the sources: it is   *)
(* modelled from the specification (sections 4.1-4.4, 6, 7).  A HistoryItem *)
(* keeps _id, password, strength, responseTime, length and options;        *)
(* createdAt and the statistics computed from it or by division            *)
(* (generatedToday, generatedThisWeek, the two averages) are left out.     *)

StoreCap == 20

\* fetch(`${API_URL}/passwords/history?limit=20`) (App.tsx line 91).
HistoryLimit == 20

ApiSeeds == {0}

IdInStore(id) == \E i \in 1..Len(store) : store[i]._id = id

\* computeStats(historySnapshot): the count of items, and for each strength
\* label present its count.
computeStats(h) ==
    [totalGenerated |-> Len(h),
     strengthDistribution |->
        {[_id |-> l, count |-> Cardinality({i \in 1..Len(h) : h[i].strength = l})] :
            l \in {h[i].strength : i \in 1..Len(h)}}]

NoArg == [length |-> 0, options |-> NoOptions, id |-> 0]
NoData == [password |-> <<>>, strength |-> "", list |-> <<>>, stats |-> <<>>,
           error |-> ""]

\* A fetch in flight is first a request, then, once served, a response.
\* join: fetchHistory/fetchStats awaited by generatePassword's Promise.all.
Request(kind, join, arg) ==
    [kind |-> kind, phase |-> "req", join |-> join, arg |-> arg,
     ok |-> FALSE, data |-> NoData]

Response(m, ok, data) == [m EXCEPT !.phase = "resp", !.ok = ok, !.data = data]

Requests == {m \in BagToSet(net) : m.phase = "req"}
Responses == {m \in BagToSet(net) : m.phase = "resp"}

Reply(m, ok, data) ==
    net' = (net (-) SetToBag({m})) (+) SetToBag({Response(m, ok, data)})

\* GeneratePassword(length, options): EmptyPoolError, or a password that is
\* scored and appended to the store, which keeps the newest StoreCap items.
ServeGenerate(m, seed, elapsed) ==
    /\ m.kind = "generate"
    /\ IF BuildPool(m.arg.options) = <<>>
       THEN /\ Reply(m, FALSE, [NoData EXCEPT !.error = "EmptyPoolError"])
            /\ UNCHANGED <<store, nextId>>
       ELSE LET r == generatePasswordFromOptions(
                        m.arg.length, m.arg.options,
                        RandomStream(seed, 1, m.arg.length), elapsed)
                item == [_id          |-> nextId,
                         password     |-> r.password,
                         strength     |-> r.strength,
                         responseTime |-> r.responseTime,
                         length       |-> m.arg.length,
                         options      |-> m.arg.options]
            IN  /\ nextId <= MaxApiGens
                /\ store' = Slice(<<item>> \o store, StoreCap)
                /\ nextId' = nextId + 1
                /\ Reply(m, TRUE, [NoData EXCEPT !.password = r.password,
                                                 !.strength = r.strength])
    /\ UNCHANGED <<pureVars, appVars, localVars, stats, loading, error,
                   genWait, lastFailure>>

\* ListHistory(limit).
ServeHistory(m) ==
    /\ m.kind = "history"
    /\ Reply(m, TRUE, [NoData EXCEPT !.list = Slice(store, HistoryLimit)])
    /\ UNCHANGED <<pureVars, appVars, localVars, stats, loading, error,
                   genWait, lastFailure, store, nextId>>

\* GetStats().
ServeStats(m) ==
    /\ m.kind = "stats"
    /\ Reply(m, TRUE, [NoData EXCEPT !.stats = <<computeStats(store)>>])
    /\ UNCHANGED <<pureVars, appVars, localVars, stats, loading, error,
                   genWait, lastFailure, store, nextId>>

\* ClearHistory().
ServeClear(m) ==
    /\ m.kind = "clear"
    /\ store' = <<>>
    /\ Reply(m, TRUE, NoData)
    /\ UNCHANGED <<pureVars, appVars, localVars, stats, loading, error,
                   genWait, lastFailure, nextId>>

\* DeleteHistoryItem(id): success, or NotFound when no item has the id.
ServeDelete(m) ==
    /\ m.kind = "delete"
    /\ IF IdInStore(m.arg.id)
       THEN /\ store' = SelectSeq(store, LAMBDA it : it._id # m.arg.id)
            /\ Reply(m, TRUE, NoData)
       ELSE /\ store' = store
            /\ Reply(m, FALSE, [NoData EXCEPT !.error = "NotFound"])
    /\ UNCHANGED <<pureVars, appVars, localVars, stats, loading, error,
                   genWait, lastFailure, nextId>>

\* Storage unavailable (section 7): the operation is not carried out and a
\* retryable error is answered.
ServeUnavailable(m) ==
    /\ Reply(m, FALSE, [NoData EXCEPT !.error = "Unavailable"])
    /\ UNCHANGED <<pureVars, appVars, localVars, stats, loading, error,
                   genWait, lastFailure, store, nextId>>

---------------------------------------------------------------------------
(* The API-backed client: App of src/src/App.tsx.                          *)
(*                                                                         *)
(* An async function is one step up to each await of a fetch and one step  *)
(* for what follows the response.  A fetch rejects (NetworkError) whether  *)
(* or not the backend has served it.  In a response, ok stands for         *)
(* response.ok together with result.success: the backend answers success   *)
(* exactly with its 2xx responses.  The code puts no limit on the fetches  *)
(* in flight and no handler below has one; the specifications bound the    *)
(* user instead, who starts a fetch only while fewer than MaxInFlight are  *)
(* in flight (UserMayClick).  What follows a response is never held back.  *)

UserMayClick == BagCardinality(net) < MaxInFlight

\* One promise of Promise.all([fetchHistory(), fetchStats()]) in
\* generatePassword has settled; after the last one, finally: setLoading(false).
Settle(m) ==
    IF m.join
    THEN /\ genWait' = genWait - 1
         /\ loading' = (genWait - 1 > 0)
    ELSE UNCHANGED <<genWait, loading>>

\* generatePassword up to its fetch (lines 49-63).
generatePasswordApi_Start(more) ==
    /\ loading' = TRUE
    /\ error' = ""
    /\ net' = net (+) SetToBag({Request("generate", FALSE,
                  [NoArg EXCEPT !.length = length, !.options = options])})
               (+) more

\* useEffect(..., []) (lines 173-177): generatePassword(); fetchStats().
MountApi ==
    /\ ~mounted
    /\ mounted' = TRUE
    /\ generatePasswordApi_Start(SetToBag({Request("stats", FALSE, NoArg)}))
    /\ UNCHANGED <<pureVars, length, options, password, strength, history,
                   showHistory, localVars, stats, genWait, lastFailure, store,
                   nextId>>

\* The Regenerate button (lines 314-320), disabled while loading.
generatePasswordApi ==
    /\ mounted
    /\ ~loading
    /\ generatePasswordApi_Start(EmptyBag)
    /\ UNCHANGED <<pureVars, appVars, localVars, stats, genWait, lastFailure,
                   store, nextId>>

\* generatePassword after its fetch (lines 65-85).
generatePasswordApi_Response(m) ==
    /\ m.kind = "generate"
    /\ IF m.ok
       THEN /\ password' = m.data.password
            /\ strength' = m.data.strength
            /\ net' = (net (-) SetToBag({m}))
                        (+) SetToBag({Request("history", TRUE, NoArg)})
                        (+) SetToBag({Request("stats", TRUE, NoArg)})
            /\ genWait' = 2
            /\ UNCHANGED <<error, loading, lastFailure>>
       ELSE /\ error' = m.data.error
            /\ loading' = FALSE
            /\ net' = net (-) SetToBag({m})
            /\ lastFailure' = m.data.error
            /\ UNCHANGED <<password, strength, genWait>>
    /\ UNCHANGED <<pureVars, mounted, length, options, history, showHistory,
                   localVars, stats, store, nextId>>

\* fetchHistory after its fetch (lines 93-104): setHistory(result.data), or
\* the error is thrown, caught and logged and the history stays.
fetchHistory_Response(m) ==
    /\ m.kind = "history"
    /\ IF m.ok
       THEN /\ history' = m.data.list
            /\ UNCHANGED lastFailure
       ELSE /\ lastFailure' = m.data.error
            /\ UNCHANGED history
    /\ net' = net (-) SetToBag({m})
    /\ Settle(m)
    /\ UNCHANGED <<pureVars, mounted, length, options, password, strength,
                   showHistory, localVars, stats, error, store, nextId>>

\* fetchStats after its fetch (lines 112-123): setStats(result.data), or
\* the error is thrown, caught and logged and the statistics stay.
fetchStats_Response(m) ==
    /\ m.kind = "stats"
    /\ IF m.ok
       THEN /\ stats' = m.data.stats
            /\ UNCHANGED lastFailure
       ELSE /\ lastFailure' = m.data.error
            /\ UNCHANGED stats
    /\ net' = net (-) SetToBag({m})
    /\ Settle(m)
    /\ UNCHANGED <<pureVars, appVars, localVars, error, store, nextId>>

\* clearHistory up to its fetch (lines 127-135): the Clear All button is
\* rendered with the history panel, and the user confirms.
clearHistoryApi ==
    /\ mounted
    /\ showHistory
    /\ net' = net (+) SetToBag({Request("clear", FALSE, NoArg)})
    /\ UNCHANGED <<pureVars, appVars, localVars, stats, loading, error,
                   genWait, lastFailure, store, nextId>>

\* clearHistory after its fetch (lines 137-150): setHistory([]) and
\* fetchStats(), or alert.
clearHistoryApi_Response(m) ==
    /\ m.kind = "clear"
    /\ IF m.ok
       THEN /\ history' = <<>>
            /\ net' = (net (-) SetToBag({m}))
                        (+) SetToBag({Request("stats", FALSE, NoArg)})
            /\ UNCHANGED lastFailure
       ELSE /\ net' = net (-) SetToBag({m})
            /\ lastFailure' = m.data.error
            /\ UNCHANGED history
    /\ UNCHANGED <<pureVars, mounted, length, options, password, strength,
                   showHistory, localVars, stats, loading, error, genWait,
                   store, nextId>>

\* deletePassword up to its fetch (lines 154-158): the button of a
\* displayed item.
deletePassword(id) ==
    /\ mounted
    /\ showHistory
    /\ \E i \in 1..Len(history) : history[i]._id = id
    /\ net' = net (+) SetToBag({Request("delete", FALSE, [NoArg EXCEPT !.id = id])})
    /\ UNCHANGED <<pureVars, appVars, localVars, stats, loading, error,
                   genWait, lastFailure, store, nextId>>

deletePassword_Response_DropLocally(m) ==
    /\ m.kind = "delete"
    /\ IF m.ok
       THEN /\ net' = (net (-) SetToBag({m}))
                        (+) SetToBag({Request("history", FALSE, NoArg)})
                        (+) SetToBag({Request("stats", FALSE, NoArg)})
            /\ UNCHANGED <<lastFailure, history>>
       ELSE /\ net' = net (-) SetToBag({m})
            /\ lastFailure' = m.data.error
            /\ history' = SelectSeq(history, LAMBDA it : it._id # m.arg.id)
    /\ UNCHANGED <<pureVars, mounted, length, options, password, strength,
                   showHistory, localVars, stats, loading, error, genWait,
                   store, nextId>>

\* deletePassword after its fetch (lines 160-169): refresh, or alert.
deletePassword_Response(m) ==
    /\ m.kind = "delete"
    /\ IF m.ok
       THEN /\ net' = (net (-) SetToBag({m}))
                        (+) SetToBag({Request("history", FALSE, NoArg)})
                        (+) SetToBag({Request("stats", FALSE, NoArg)})
            /\ UNCHANGED lastFailure
       ELSE /\ net' = net (-) SetToBag({m})
            /\ lastFailure' = m.data.error
    /\ UNCHANGED <<pureVars, appVars, localVars, stats, loading, error,
                   genWait, store, nextId>>

\* A fetch rejects: the catch of the function that awaits it runs.
NetworkError(m) ==
    /\ net' = net (-) SetToBag({m})
    /\ lastFailure' = "NetworkError"
    /\ IF m.kind = "generate"
       THEN /\ error' = "Failed to fetch"
            /\ loading' = FALSE
            /\ UNCHANGED genWait
       ELSE /\ Settle(m)
            /\ UNCHANGED error
    /\ UNCHANGED <<pureVars, appVars, localVars, stats, store, nextId>>

\* handleOptionsChange (lines 180-183); the checkboxes are disabled while
\* loading.
handleOptionsChange(key) ==
    /\ mounted
    /\ ~loading
    /\ options' = [options EXCEPT ![key] = ~options[key]]
    /\ UNCHANGED <<pureVars, mounted, length, password, strength, history,
                   showHistory, localVars, apiVars>>

\* handleLengthChange (lines 185-187); the input is disabled while loading.
handleLengthChangeApi(newLength) ==
    /\ mounted
    /\ ~loading
    /\ length' = newLength
    /\ UNCHANGED <<pureVars, mounted, options, password, strength, history,
                   showHistory, localVars, apiVars>>

\* toggleHistory (lines 200-205); the button is disabled while loading.
toggleHistory ==
    /\ mounted
    /\ ~loading
    /\ IF ~showHistory
       THEN net' = net (+) SetToBag({Request("history", FALSE, NoArg)})
       ELSE UNCHANGED net
    /\ showHistory' = ~showHistory
    /\ UNCHANGED <<pureVars, mounted, length, options, password, strength,
                   history, localVars, stats, loading, error, genWait,
                   lastFailure, store, nextId>>

InitApi == PureIdle /\ AppInit /\ LocalIdle /\ ApiIdle

\* Each step of the backend and each arrival at the client, for some fetch
\* in flight.
Backend_Generate ==
    \E m \in Requests : \E seed \in ApiSeeds, elapsed \in Elapsed :
        ServeGenerate(m, seed, elapsed)
Backend_History == \E m \in Requests : ServeHistory(m)
Backend_Stats == \E m \in Requests : ServeStats(m)
Backend_Clear == \E m \in Requests : ServeClear(m)
Backend_Delete == \E m \in Requests : ServeDelete(m)
Backend_Unavailable == \E m \in Requests : ServeUnavailable(m)
Click_Generate == UserMayClick /\ generatePasswordApi
Click_Clear == UserMayClick /\ clearHistoryApi
Click_Toggle == (showHistory \/ UserMayClick) /\ toggleHistory
Click_Delete == \E id \in 1..MaxApiGens : UserMayClick /\ deletePassword(id)
Arrive_Generate == \E m \in Responses : generatePasswordApi_Response(m)
Arrive_History == \E m \in Responses : fetchHistory_Response(m)
Arrive_Stats == \E m \in Responses : fetchStats_Response(m)
Arrive_Clear == \E m \in Responses : clearHistoryApi_Response(m)
Arrive_Delete == \E m \in Responses : deletePassword_Response(m)
Reject == \E m \in BagToSet(net) : NetworkError(m)

\* The client with every operation but the editing of the selection; the
\* backend carries out every request it serves, a fetch may still reject.
NextApi ==
    \/ MountApi
    \/ Click_Generate
    \/ Click_Clear
    \/ Click_Toggle
    \/ Click_Delete
    \/ Backend_Generate
    \/ Backend_History
    \/ Backend_Stats
    \/ Backend_Clear
    \/ Backend_Delete
    \/ Arrive_Generate
    \/ Arrive_History
    \/ Arrive_Stats
    \/ Arrive_Clear
    \/ Arrive_Delete
    \/ Reject

SpecApi == InitApi /\ [][NextApi]_vars

\* The same, with a backend whose storage may be unavailable.
NextFail == NextApi \/ Backend_Unavailable

SpecFail == InitApi /\ [][NextFail]_vars

\* The client when the user edits the selection and generates; every fetch
\* is answered.
SelectLengths == {4, 8}

NextSelect ==
    \/ MountApi
    \/ Click_Generate
    \/ Click_Toggle
    \/ \E key \in OptionKeys : handleOptionsChange(key)
    \/ \E n \in SelectLengths : handleLengthChangeApi(n)
    \/ Backend_Generate
    \/ Backend_History
    \/ Backend_Stats
    \/ Arrive_Generate
    \/ Arrive_History
    \/ Arrive_Stats

SpecSelect == InitApi /\ [][NextSelect]_vars

---------------------------------------------------------------------------
(* The pure functions, each applied once to inputs drawn by Init.          *)

InitPure ==
    /\ pcall \in GenerateCalls \cup EvaluateCalls
    /\ pret = <<>>
    /\ AppInit /\ LocalIdle /\ ApiIdle

CallGenerate ==
    /\ pcall.fn = "generate"
    /\ pret = <<>>
    /\ pret' = <<generatePasswordFromOptions(
                    pcall.length, pcall.options,
                    RandomStream(pcall.seed, pcall.step, pcall.length), 0)>>
    /\ UNCHANGED <<pcall, appVars, localVars, apiVars>>

CallEvaluate ==
    /\ pcall.fn = "evaluate"
    /\ pret = <<>>
    /\ pret' = <<[label |-> evaluateStrength(pcall.pw, pcall.poolSize)]>>
    /\ UNCHANGED <<pcall, appVars, localVars, apiVars>>

NextPure == CallGenerate \/ CallEvaluate

SpecPure == InitPure /\ [][NextPure]_vars

---------------------------------------------------------------------------
(* Properties of the pure functions, checked under SpecPure.               *)

Range(s) == {s[i] : i \in DOMAIN s}

Returned == pret # <<>>
Generated == Returned /\ pcall.fn = "generate"
Evaluated == Returned /\ pcall.fn = "evaluate"

\* The character at 0-based position j of the charsets of the enabled
\* options laid end to end in the order upper, lower, numbers, symbols.
CanonicalAt(opts, j) ==
    LET u == IF opts.upper THEN Len(CHARSETS.upper) ELSE 0
        l == IF opts.lower THEN Len(CHARSETS.lower) ELSE 0
        n == IF opts.numbers THEN Len(CHARSETS.numbers) ELSE 0
    IN  IF j < u THEN CHARSETS.upper[j + 1]
        ELSE IF j < u + l THEN CHARSETS.lower[j - u + 1]
        ELSE IF j < u + l + n THEN CHARSETS.numbers[j - u - l + 1]
        ELSE CHARSETS.symbols[j - u - l - n + 1]

EnabledChars(opts) ==
    UNION {Range(CHARSETS[k]) : k \in {x \in OptionKeys : opts[x]}}

PoolSizeOf(opts) ==
    (IF opts.upper THEN 26 ELSE 0) + (IF opts.lower THEN 26 ELSE 0)
    + (IF opts.numbers THEN 10 ELSE 0) + (IF opts.symbols THEN 21 ELSE 0)

\* C1: for every length >= 1 and every Options value with at least one
\* class enabled, the returned password has exactly `length` characters,
\* each one a character of an enabled charset, namely the one at the drawn
\* index of the pool upper, lower, numbers, symbols; no character of a
\* disabled charset appears, whatever the random source yields.
C1_LengthAndPool ==
    (Generated /\ pcall.length >= 1 /\ pcall.options # NoOptions) =>
        LET pw == pret[1].password
            rand == RandomStream(pcall.seed, pcall.step, pcall.length)
            size == PoolSizeOf(pcall.options)
        IN  /\ Len(pw) = pcall.length
            /\ \A i \in 1..Len(pw) :
                  /\ pw[i] \in EnabledChars(pcall.options)
                  /\ pw[i] = CanonicalAt(pcall.options,
                                         (rand[i] * size) \div RandDen)

\* A 12-character password over numbers only, from draws 0 and 3/4: the
\* characters at positions 0 and 7 of the ten-character pool.
C1_Witness ==
    /\ Generated
    /\ pcall.length = 12
    /\ pcall.options = [NoOptions EXCEPT !.numbers = TRUE]
    /\ Len(pret[1].password) = 12
    /\ pret[1].password[1] = "0"
    /\ pret[1].password[2] = "7"

IsNormalResult(r) == DOMAIN r = {"password", "strength", "responseTime"}

\* C2: with all four options false, generation fails with an EmptyPoolError
\* signalled distinctly from a normal result: what is returned is never a
\* normal {password, strength, responseTime} result, for any length.
C2_EmptyPoolIsAnError ==
    (Generated /\ pcall.options = NoOptions) => ~IsNormalResult(pret[1])

\* The least length at which length * log2(poolSize) reaches 40, and 60, for
\* poolSize = 1 .. 90 (poolSize = 1 never reaches them: entry 0).
MinLen40 ==
    <<
       0, 40, 26, 20, 18, 16, 15, 14, 13, 13, 12, 12, 11, 11, 11,
       10, 10, 10, 10, 10, 10, 9, 9, 9, 9, 9, 9, 9, 9, 9,
       9, 8, 8, 8, 8, 8, 8, 8, 8, 8, 8, 8, 8, 8, 8,
       8, 8, 8, 8, 8, 8, 8, 7, 7, 7, 7, 7, 7, 7, 7,
       7, 7, 7, 7, 7, 7, 7, 7, 7, 7, 7, 7, 7, 7, 7,
       7, 7, 7, 7, 7, 7, 7, 7, 7, 7, 7, 7, 7, 7, 7
    >>

MinLen60 ==
    <<
       0, 60, 38, 30, 26, 24, 22, 20, 19, 19, 18, 17, 17, 16, 16,
       15, 15, 15, 15, 14, 14, 14, 14, 14, 13, 13, 13, 13, 13, 13,
       13, 12, 12, 12, 12, 12, 12, 12, 12, 12, 12, 12, 12, 11, 11,
       11, 11, 11, 11, 11, 11, 11, 11, 11, 11, 11, 11, 11, 11, 11,
       11, 11, 11, 10, 10, 10, 10, 10, 10, 10, 10, 10, 10, 10, 10,
       10, 10, 10, 10, 10, 10, 10, 10, 10, 10, 10, 10, 10, 10, 10
    >>

Band(len, poolSize) ==
    IF poolSize = 1 \/ len < MinLen40[poolSize] THEN "Weak"
    ELSE IF len < MinLen60[poolSize] THEN "Medium"
    ELSE "Strong"

\* C3: the label is Weak for length * log2(poolSize) < 40, Medium from 40 up
\* to but not including 60, Strong from 60 on, with poolSize the sum of the
\* sizes of the enabled charsets; it depends on (length, poolSize) alone.
\* Length 12 over upper+lower+numbers is Strong, length 4 over numbers is
\* Weak, entropy exactly 40 is Medium and exactly 60 is Strong.
C3_StrengthBands ==
    /\ (Generated /\ pcall.options # NoOptions) =>
          pret[1].strength = Band(pcall.length, PoolSizeOf(pcall.options))
    /\ Evaluated => pret[1].label = Band(Len(pcall.pw), pcall.poolSize)
    /\ (Generated /\ pcall.length = 12
          /\ pcall.options = [NoOptions EXCEPT !.upper = TRUE, !.lower = TRUE,
                                               !.numbers = TRUE]) =>
          pret[1].strength = "Strong"
    /\ (Generated /\ pcall.length = 4
          /\ pcall.options = [NoOptions EXCEPT !.numbers = TRUE]) =>
          pret[1].strength = "Weak"
    /\ (Evaluated /\ Len(pcall.pw) = 10 /\ pcall.poolSize = 16) =>
          pret[1].label = "Medium"
    /\ (Evaluated /\ Len(pcall.pw) = 12 /\ pcall.poolSize = 32) =>
          pret[1].label = "Strong"
    /\ (Evaluated /\ pcall.poolSize = 1) => pret[1].label = "Weak"

\* evaluateStrength applied at entropy exactly 40: ten characters, pool of 16.
C3_Witness ==
    /\ Evaluated
    /\ Len(pcall.pw) = 10
    /\ pcall.poolSize = 16
    /\ pret[1].label = "Medium"

---------------------------------------------------------------------------
(* Properties of the local client.                                         *)

C4_Bounded ==
    /\ Len(history) <= HistoryCap
    /\ history # <<>> => lastItem = <<Head(history)>>

C4_Append ==
    (nAppended' = nAppended + 1) =>
        /\ Len(history') =
              (IF Len(history) = HistoryCap THEN HistoryCap ELSE Len(history) + 1)
        /\ history'[1] = lastItem'[1]
        /\ \A i \in 2..Len(history') : history'[i] = history[i - 1]

\* C4: the history never holds more than 20 items and is ordered newest
\* first: its head is the item generated last, every generation shifts the
\* retained items down by one, and a generation made when 20 items are
\* retained drops exactly the oldest, leaving 20 (checked under SpecCap).
C4_CapNewestFirst == [](C4_Bounded) /\ [][C4_Append]_vars

\* Twenty-one generations without a clear: the first item is gone, the
\* second is now the oldest.
C4_Witness ==
    /\ nAppended = HistoryCap + 1
    /\ Len(history) = HistoryCap
    /\ history[1].id = StartClock + HistoryCap + 1
    /\ history[HistoryCap].id = StartClock + 2

\* C5: no two items retained in the history share an id, also when two
\* generations are recorded at the same reading of the clock (SpecLocal).
C5_UniqueIds ==
    \A i, j \in 1..Len(history) : i # j => history[i].id # history[j].id

\* C6: the number of items ever appended equals the number of successful
\* generations: a generation that fails because no character class is
\* enabled adds no item (SpecLocal).
C6_OneAppendPerSuccess == nAppended = nSucceeded

---------------------------------------------------------------------------
(* Properties of the API-backed client.                                    *)

\* C7: whenever nothing is in flight, the stats the client holds are the
\* stats recomputed from the history it holds: the same totalGenerated and
\* the same count for each strength label (SpecFail: fetches may fail).
C7_StatsMatchHistory ==
    (net = EmptyBag /\ stats # <<>>) => stats[1] = computeStats(history)

C8_Step ==
    \A m \in BagToSet(net) :
        /\ (m.kind = "delete" /\ m.phase = "req" /\ ~IdInStore(m.arg.id)
              /\ ServeDelete(m)) =>
              /\ Len(store') = Len(store)
              /\ Response(m, FALSE, [NoData EXCEPT !.error = "NotFound"])
                    \in BagToSet(net')
        /\ (m.kind = "delete" /\ m.phase = "resp" /\ ~m.ok
              /\ m.data.error = "NotFound"
              /\ deletePassword_Response(m)) =>
              /\ history' = history
              /\ stats' = stats
              /\ lastFailure' = "NotFound"

\* C8: deleting an id the store does not hold is answered NotFound and
\* leaves the store the same size; the client, on that answer, reports it
\* and changes neither its history nor its stats.
C8_NotFoundChangesNothing == [][C8_Step]_vars

\* The client has been told NotFound for an item it still displays.
C8_Witness ==
    /\ lastFailure = "NotFound"
    /\ Len(history) = 1
    /\ ~IdInStore(history[1]._id)

C9_Step ==
    (length' # length \/ options' # options) =>
        \E m \in BagToSet(net') :
            /\ m.kind = "generate"
            /\ m.phase = "req"
            /\ m.arg.length = length'
            /\ m.arg.options = options'

\* C9: every option toggle and every length change starts a generation with
\* the updated options and length (SpecSelect).
C9_RegeneratesOnChange == [][C9_Step]_vars

\* C10: when every request has succeeded and none is in flight, the history
\* the client holds is the newest-first list of at most 20 items the store
\* holds (SpecApi).
C10_HistoryMirrorsStore ==
    (net = EmptyBag /\ lastFailure = "") => history = Slice(store, HistoryLimit)

=============================================================================
